---- MODULE Spec2Model ----
(***************************************************************************)
(* Model of rma_simulator.py: the MemoryBlock tree and the RecursiveMemory *)
(* facade.  Python objects live in a heap (reference -> MemoryBlock        *)
(* record); a dict is an insertion-ordered sequence of key/child entries;  *)
(* a Python str used as a path or a segment is a sequence of characters.   *)
(***************************************************************************)
EXTENDS Integers, Sequences, FiniteSets, TLC

\* ---------------------------------------------------------------- bounds
MaxStrLen == 2      \* longest dotted path string offered to the API
MaxListLen == 2     \* longest pre-split path offered to the API
MaxOps == 2         \* number of set/delete calls in one run

\* ---------------------------------------------------------------- inputs
Chars == {"a", "."}
Keys == {<<"a">>}

Strings == UNION {[1..n -> Chars] : n \in 0..MaxStrLen}
Lists == UNION {[1..n -> Keys] : n \in 0..MaxListLen}

\* A path argument is either a str or a list of str (isinstance(path, str)).
PathArgs == {[isstr |-> TRUE, v |-> s] : s \in Strings}
              \cup {[isstr |-> FALSE, v |-> l] : l \in Lists}

None == [type |-> "NoneType"]
Str(s) == [type |-> "str", s |-> s]
Values == {None, Str("root"), Str("x")}

NoneRef == 0
RootName == <<"r", "o", "o", "t">>

\* ---------------------------------------------------------------- str.split('.')
RECURSIVE split(_)
split(s) ==
    IF \A i \in 1..Len(s) : s[i] # "."
    THEN <<s>>
    ELSE LET i == CHOOSE j \in 1..Len(s) :
                     s[j] = "." /\ \A k \in 1..(j-1) : s[k] # "."
         IN <<SubSeq(s, 1, i-1)>> \o split(SubSeq(s, i+1, Len(s)))

\* variant: the str is not split and is walked character by character
Normalise_chars(path) ==
    IF path.isstr THEN [i \in 1..Len(path.v) |-> <<path.v[i]>>] ELSE path.v

\* if isinstance(path, str): path = path.split('.')
Normalise(path) == IF path.isstr THEN split(path.v) ELSE path.v

\* ---------------------------------------------------------------- dict
HasKey(d, k) == \E i \in 1..Len(d) : d[i].key = k
Lookup(d, k) == d[CHOOSE i \in 1..Len(d) : d[i].key = k].child
Store(d, k, c) ==
    IF HasKey(d, k)
    THEN [i \in 1..Len(d) |->
            IF d[i].key = k THEN [key |-> k, child |-> c] ELSE d[i]]
    ELSE Append(d, [key |-> k, child |-> c])
DelKey(d, k) == SelectSeq(d, LAMBDA e : e.key # k)

\* ---------------------------------------------------------------- MemoryBlock
MemoryBlock(value, parent, name) ==
    [value |-> value, children |-> <<>>, parent |-> parent, name |-> name]

\* the reference a newly constructed object gets: the lowest free one
NewRef(h) == CHOOSE n \in 1..(Cardinality(DOMAIN h) + 1) :
                 n \notin DOMAIN h /\ \A m \in 1..(n-1) : m \in DOMAIN h

\* variant: the child is constructed without parent=self
add_child_orphan(h, self, name, value) ==
    LET child == NewRef(h)
    IN [heap |-> [n \in DOMAIN h \cup {child} |->
                    IF n = child THEN MemoryBlock(value, NoneRef, name)
                    ELSE IF n = self
                         THEN [h[n] EXCEPT !.children = Store(@, name, child)]
                         ELSE h[n]],
        ref |-> child]

add_child(h, self, name, value) ==
    LET child == NewRef(h)
    IN [heap |-> [n \in DOMAIN h \cup {child} |->
                    IF n = child THEN MemoryBlock(value, self, name)
                    ELSE IF n = self
                         THEN [h[n] EXCEPT !.children = Store(@, name, child)]
                         ELSE h[n]],
        ref |-> child]

RECURSIVE get_path(_, _, _)
get_path(h, self, path) ==
    IF path = <<>> THEN self
    ELSE IF ~HasKey(h[self].children, Head(path)) THEN NoneRef
    ELSE get_path(h, Lookup(h[self].children, Head(path)), Tail(path))

\* variant: the walk adds a child for every key, present or not
RECURSIVE set_walk_always(_, _, _)
set_walk_always(h, node, path) ==
    IF path = <<>> THEN [heap |-> h, ref |-> node]
    ELSE LET h1 == add_child(h, node, Head(path), None).heap
         IN set_walk_always(h1, Lookup(h1[node].children, Head(path)), Tail(path))

\* the loop of set_value: returns the heap after the walk and the node reached
RECURSIVE set_walk(_, _, _)
set_walk(h, node, path) ==
    IF path = <<>> THEN [heap |-> h, ref |-> node]
    ELSE LET key == Head(path)
             h1 == IF ~HasKey(h[node].children, key)
                   THEN add_child(h, node, key, None).heap
                   ELSE h
         IN set_walk(h1, Lookup(h1[node].children, key), Tail(path))

\* variant: a value already present is kept (set-if-absent)
set_value_keep(h, self, path, value) ==
    LET w == set_walk(h, self, path)
    IN IF w.heap[w.ref].value # None THEN w.heap
       ELSE [w.heap EXCEPT ![w.ref].value = value]

set_value(h, self, path, value) ==
    LET w == set_walk(h, self, path)
    IN [w.heap EXCEPT ![w.ref].value = value]

get_value(h, self, path) ==
    LET node == get_path(h, self, path)
    IN IF node # NoneRef THEN h[node].value ELSE None

\* objects still referenced from self through children maps
RECURSIVE Reachable(_, _)
Reachable(h, self) ==
    {self} \cup UNION {Reachable(h, h[self].children[i].child) :
                          i \in 1..Len(h[self].children)}

\* del parent.children[key]: the entry goes, and with it every object that
\* is no longer referenced from the root
Unlink(h, self, parent, key) ==
    LET h1 == [h EXCEPT ![parent].children = DelKey(@, key)]
    IN [n \in Reachable(h1, self) |-> h1[n]]

\* variant: only a node without children is deleted
delete_path_leaf(h, self, path) ==
    IF Len(path) = 0 THEN [heap |-> h, ret |-> FALSE]
    ELSE LET parent_path == SubSeq(path, 1, Len(path) - 1)
             key == path[Len(path)]
             parent == IF parent_path # <<>>
                       THEN get_path(h, self, parent_path) ELSE self
         IN IF /\ parent # NoneRef
               /\ HasKey(h[parent].children, key)
               /\ h[Lookup(h[parent].children, key)].children = <<>>
            THEN [heap |-> Unlink(h, self, parent, key), ret |-> TRUE]
            ELSE [heap |-> h, ret |-> FALSE]

\* variant: children.pop(key, None) in place of the membership test
delete_path_pop(h, self, path) ==
    IF Len(path) = 0 THEN [heap |-> h, ret |-> FALSE]
    ELSE LET parent_path == SubSeq(path, 1, Len(path) - 1)
             key == path[Len(path)]
             parent == IF parent_path # <<>>
                       THEN get_path(h, self, parent_path) ELSE self
         IN IF parent # NoneRef
            THEN [heap |-> Unlink(h, self, parent, key), ret |-> TRUE]
            ELSE [heap |-> h, ret |-> FALSE]

\* variant: a parent left without children and without a value is removed too
delete_path_prune(h, self, path) ==
    IF Len(path) = 0 THEN [heap |-> h, ret |-> FALSE]
    ELSE LET parent_path == SubSeq(path, 1, Len(path) - 1)
             key == path[Len(path)]
             parent == IF parent_path # <<>>
                       THEN get_path(h, self, parent_path) ELSE self
         IN IF parent # NoneRef /\ HasKey(h[parent].children, key)
            THEN LET h1 == Unlink(h, self, parent, key)
                 IN IF /\ parent # self
                       /\ h1[parent].children = <<>>
                       /\ h1[parent].value = None
                    THEN [heap |-> Unlink(h1, self, h1[parent].parent,
                                          h1[parent].name),
                          ret |-> TRUE]
                    ELSE [heap |-> h1, ret |-> TRUE]
            ELSE [heap |-> h, ret |-> FALSE]

delete_path(h, self, path) ==
    IF Len(path) = 0 THEN [heap |-> h, ret |-> FALSE]
    ELSE LET parent_path == SubSeq(path, 1, Len(path) - 1)
             key == path[Len(path)]
             parent == IF parent_path # <<>>
                       THEN get_path(h, self, parent_path) ELSE self
         IN IF parent # NoneRef /\ HasKey(h[parent].children, key)
            THEN [heap |-> Unlink(h, self, parent, key), ret |-> TRUE]
            ELSE [heap |-> h, ret |-> FALSE]

\* ---------------------------------------------------------------- reads
\* self.value == value
PyEq(a, b) == a = b

\* a str is falsy exactly when it is empty (if node.name:)
Truthy(name) == name # <<>>

\* variant: a node is reported after its descendants
RECURSIVE search_recursive_post(_, _, _, _)
search_recursive_post(h, self, value, current_path) ==
    LET kids == h[self].children
        RECURSIVE items(_)
        items(i) ==
            IF i > Len(kids) THEN <<>>
            ELSE search_recursive_post(h, kids[i].child, value,
                                       Append(current_path, kids[i].key))
                 \o items(i + 1)
    IN items(1)
       \o (IF PyEq(h[self].value, value) THEN <<current_path>> ELSE <<>>)

RECURSIVE search_recursive(_, _, _, _)
search_recursive(h, self, value, current_path) ==
    LET kids == h[self].children
        RECURSIVE items(_)
        items(i) ==
            IF i > Len(kids) THEN <<>>
            ELSE search_recursive(h, kids[i].child, value,
                                  Append(current_path, kids[i].key))
                 \o items(i + 1)
    IN (IF PyEq(h[self].value, value) THEN <<current_path>> ELSE <<>>)
       \o items(1)

search(h, self, value) == search_recursive(h, self, value, <<>>)

\* variant: a path is reported when any of its segments matches
RECURSIVE search_key_recursive_any(_, _, _, _)
search_key_recursive_any(h, self, key_name, current_path) ==
    LET kids == h[self].children
        RECURSIVE items(_)
        items(i) ==
            IF i > Len(kids) THEN <<>>
            ELSE LET new_path == Append(current_path, kids[i].key)
                 IN (IF \E k \in 1..Len(new_path) : new_path[k] = key_name
                     THEN <<new_path>> ELSE <<>>)
                    \o search_key_recursive_any(h, kids[i].child, key_name, new_path)
                    \o items(i + 1)
    IN items(1)

\* variant: the walk does not descend below a child whose key matches
RECURSIVE search_key_recursive_stop(_, _, _, _)
search_key_recursive_stop(h, self, key_name, current_path) ==
    LET kids == h[self].children
        RECURSIVE items(_)
        items(i) ==
            IF i > Len(kids) THEN <<>>
            ELSE LET new_path == Append(current_path, kids[i].key)
                 IN (IF kids[i].key = key_name THEN <<new_path>>
                     ELSE search_key_recursive_stop(h, kids[i].child,
                                                    key_name, new_path))
                    \o items(i + 1)
    IN items(1)

RECURSIVE search_key_recursive(_, _, _, _)
search_key_recursive(h, self, key_name, current_path) ==
    LET kids == h[self].children
        RECURSIVE items(_)
        items(i) ==
            IF i > Len(kids) THEN <<>>
            ELSE LET new_path == Append(current_path, kids[i].key)
                 IN (IF kids[i].key = key_name THEN <<new_path>> ELSE <<>>)
                    \o search_key_recursive(h, kids[i].child, key_name, new_path)
                    \o items(i + 1)
    IN items(1)

search_key(h, self, key_name) == search_key_recursive(h, self, key_name, <<>>)

Max(S) == CHOOSE m \in S : \A x \in S : x <= m

\* variant: a node without children counts as depth 1
RECURSIVE get_depth_off(_, _)
get_depth_off(h, self) ==
    IF h[self].children = <<>> THEN 1
    ELSE 1 + Max({get_depth_off(h, h[self].children[i].child) :
                     i \in 1..Len(h[self].children)})

RECURSIVE get_depth(_, _)
get_depth(h, self) ==
    IF h[self].children = <<>> THEN 0
    ELSE 1 + Max({get_depth(h, h[self].children[i].child) :
                     i \in 1..Len(h[self].children)})

\* variant: only self and the direct children are counted
count_nodes_flat(h, self) == 1 + Len(h[self].children)

RECURSIVE count_nodes(_, _)
count_nodes(h, self) ==
    LET kids == h[self].children
        RECURSIVE items(_)
        items(i) == IF i > Len(kids) THEN 0
                    ELSE count_nodes(h, kids[i].child) + items(i + 1)
    IN 1 + items(1)

\* the while loop of get_full_path
RECURSIVE full_path_walk(_, _, _)
full_path_walk(h, node, path) ==
    IF h[node].parent = NoneRef THEN path
    ELSE full_path_walk(h, h[node].parent,
                        IF Truthy(h[node].name) THEN <<h[node].name>> \o path
                        ELSE path)

get_full_path(h, self) == full_path_walk(h, self, <<>>)

\* variant: the children mapping is emitted for every node, empty or not
RECURSIVE to_dict_always(_, _)
to_dict_always(h, self) ==
    LET kids == h[self].children
    IN [value |-> h[self].value,
        children |-> [i \in 1..Len(kids) |->
                         [key |-> kids[i].key,
                          child |-> to_dict_always(h, kids[i].child)]]]

RECURSIVE to_dict(_, _)
to_dict(h, self) ==
    LET kids == h[self].children
    IN IF kids # <<>>
       THEN [value |-> h[self].value,
             children |-> [i \in 1..Len(kids) |->
                              [key |-> kids[i].key,
                               child |-> to_dict(h, kids[i].child)]]]
       ELSE [value |-> h[self].value]

stats(h, self) ==
    [total_nodes |-> count_nodes(h, self),
     max_depth |-> get_depth(h, self),
     direct_children |-> Len(h[self].children),
     has_value |-> h[self].value # None]

\* ---------------------------------------------------------------- state
VARIABLES
    heap,       \* reference -> MemoryBlock, the objects reachable from root
    root,       \* RecursiveMemory.root
    last,       \* the most recent set/delete call and what it returned
    ret,        \* the most recent call of any kind and what it returned
    nops,       \* number of set/delete calls made in this run
    written,    \* history: every <<path, value>> a set call was made with
    stored,     \* history: path -> value set there and not since deleted
    created     \* history: paths of nodes created by a set and not since deleted

vars == <<heap, root, last, ret, nops, written, stored, created>>

IsPrefix(p, q) == Len(p) <= Len(q) /\ SubSeq(q, 1, Len(p)) = p
Prefixes(p) == {SubSeq(p, 1, k) : k \in 1..Len(p)}

\* RecursiveMemory.__init__
Init ==
    /\ root = 1
    /\ heap = (1 :> MemoryBlock(Str("root"), NoneRef, RootName))
    /\ last = [op |-> "new", arg |-> None, path |-> <<>>, value |-> None,
               ret |-> None]
    /\ ret = [op |-> "new", arg |-> None, val |-> None]
    /\ nops = 0
    /\ written = {}
    /\ stored = <<>>
    /\ created = {}

\* RecursiveMemory.set
Set(path, value) ==
    LET p == Normalise(path)
    IN /\ nops < MaxOps
       /\ heap' = set_value(heap, root, p, value)
       /\ last' = [op |-> "set", arg |-> path, path |-> p, value |-> value,
                   ret |-> None]
       /\ ret' = [op |-> "set", arg |-> path, val |-> None]
       /\ nops' = nops + 1
       /\ written' = written \cup {<<p, value>>}
       /\ stored' = [q \in DOMAIN stored \cup {p} |->
                        IF q = p THEN value ELSE stored[q]]
       /\ created' = created \cup Prefixes(p)
       /\ UNCHANGED root

\* RecursiveMemory.delete
Delete(path) ==
    LET p == Normalise(path)
        d == delete_path(heap, root, p)
        gone(q) == p \in created /\ IsPrefix(p, q)
    IN /\ nops < MaxOps
       /\ heap' = d.heap
       /\ last' = [op |-> "delete", arg |-> path, path |-> p, value |-> None,
                   ret |-> d.ret]
       /\ ret' = [op |-> "delete", arg |-> path, val |-> d.ret]
       /\ nops' = nops + 1
       /\ stored' = [q \in {x \in DOMAIN stored : ~gone(x)} |-> stored[q]]
       /\ created' = {q \in created : ~gone(q)}
       /\ UNCHANGED <<root, written>>

\* RecursiveMemory.get
Get(path) ==
    /\ ret' = [op |-> "get", arg |-> path,
               val |-> get_value(heap, root, Normalise(path))]
    /\ UNCHANGED <<heap, root, last, nops, written, stored, created>>

\* RecursiveMemory.search
Search(value) ==
    /\ ret' = [op |-> "search", arg |-> value, val |-> search(heap, root, value)]
    /\ UNCHANGED <<heap, root, last, nops, written, stored, created>>

\* RecursiveMemory.search_key
SearchKey(key) ==
    /\ ret' = [op |-> "search_key", arg |-> key,
               val |-> search_key(heap, root, key)]
    /\ UNCHANGED <<heap, root, last, nops, written, stored, created>>

\* RecursiveMemory.stats
Stats ==
    /\ ret' = [op |-> "stats", arg |-> None, val |-> stats(heap, root)]
    /\ UNCHANGED <<heap, root, last, nops, written, stored, created>>

\* RecursiveMemory.export
Export ==
    /\ ret' = [op |-> "export", arg |-> None, val |-> to_dict(heap, root)]
    /\ UNCHANGED <<heap, root, last, nops, written, stored, created>>

\* node-level introspection: node.get_full_path() on a node of the tree
GetFullPath(node) ==
    /\ node \in DOMAIN heap
    /\ ret' = [op |-> "get_full_path", arg |-> node,
               val |-> get_full_path(heap, node)]
    /\ UNCHANGED <<heap, root, last, nops, written, stored, created>>

\* segment names that occur in the offered paths
Segments == UNION {{Normalise(a)[i] : i \in 1..Len(Normalise(a))} : a \in PathArgs}

Next ==
    \/ \E path \in PathArgs, value \in Values : Set(path, value)
    \/ \E path \in PathArgs : Delete(path)
    \/ \E path \in PathArgs : Get(path)
    \/ \E value \in Values : Search(value)
    \/ \E key \in Segments : SearchKey(key)
    \/ Stats
    \/ Export
    \/ \E node \in DOMAIN heap : GetFullPath(node)

Spec == Init /\ [][Next]_vars

\* a memory on which set("a", "x") and then set("aa", "x") have been called
InitSiblings ==
    LET h0 == (1 :> MemoryBlock(Str("root"), NoneRef, RootName))
        a1 == [isstr |-> TRUE, v |-> <<"a">>]
        a2 == [isstr |-> TRUE, v |-> <<"a", "a">>]
        p1 == Normalise(a1)
        p2 == Normalise(a2)
        x == Str("x")
    IN /\ root = 1
       /\ heap = set_value(set_value(h0, 1, p1, x), 1, p2, x)
       /\ last = [op |-> "set", arg |-> a2, path |-> p2, value |-> x,
                  ret |-> None]
       /\ ret = [op |-> "set", arg |-> a2, val |-> None]
       /\ nops = 0
       /\ written = {<<p1, x>>, <<p2, x>>}
       /\ stored = (p1 :> x @@ p2 :> x)
       /\ created = {p1, p2}

SpecSiblings == InitSiblings /\ [][Next]_vars

TypeOK == root \in DOMAIN heap

\* ---------------------------------------------------------------- properties
\* every path the offered arguments denote, with all prefixes and the empty path
Paths == {<<>>} \cup UNION {Prefixes(Normalise(a)) : a \in PathArgs}

\* the step is a call of set / of delete
SetStep == nops' = nops + 1 /\ last'.op = "set"
DeleteStep == nops' = nops + 1 /\ last'.op = "delete"

WasSetAt(p) == \E v \in Values : <<p, v>> \in written
StoredWith(v) == {q \in DOMAIN stored : PyEq(stored[q], v)}

\* C1: a get of path P (one or more segments) whose most recent set/delete
\* call was set(P, V) returns V, whatever the tree held before.
C1_WriteThenRead ==
    (/\ ret.op = "get"
     /\ last.op = "set"
     /\ Normalise(ret.arg) = last.path
     /\ Len(last.path) >= 1)
    => ret.val = last.value

\* set(P, V1); set(P, V2); get(P) has run and returned a value that is stored
C1_Witness ==
    /\ ret.op = "get"
    /\ last.op = "set"
    /\ Normalise(ret.arg) = last.path
    /\ Len(last.path) >= 2
    /\ nops = 2
    /\ Cardinality(written) = 2
    /\ \A w \in written : w[1] = last.path
    /\ ret.val = Str("x")

\* C2: get(P) returns absent (None) for every path P that no set call has
\* targeted.
C2_NeverWrittenAbsent ==
    (ret.op = "get" /\ ~WasSetAt(Normalise(ret.arg))) => ret.val = None

\* C3: delete(P) on a path of one or more segments that all exist returns
\* true, and afterwards get(Q) is absent for P and every Q that extends P.
C3_DeleteRemovesSubtree ==
    [][(DeleteStep /\ last'.path # <<>> /\ last'.path \in created)
         => /\ last'.ret = TRUE
            /\ ret'.val = TRUE
            /\ \A q \in Paths :
                 IsPrefix(last'.path, q) => get_value(heap', root', q) = None
      ]_vars

\* delete of an interior node under which a value had been set
C3_Witness ==
    /\ last.op = "delete"
    /\ last.ret = TRUE
    /\ \E w \in written :
         /\ IsPrefix(last.path, w[1])
         /\ w[1] # last.path
         /\ w[2] # None
         /\ get_value(heap, root, w[1]) = None

\* C4: delete(P) with P empty or with a missing segment returns false and
\* leaves heap and root as they were; no delete removes the root.
C4_DeleteFailureNoEffect ==
    [][DeleteStep
         => /\ root' \in DOMAIN heap'
            /\ (last'.path = <<>> \/ last'.path \notin created)
                 => (last'.ret = FALSE /\ ret'.val = FALSE
                     /\ heap' = heap /\ root' = root)
      ]_vars

\* a failed delete below a missing intermediate segment, on a non-empty tree
C4_Witness ==
    /\ last.op = "delete"
    /\ last.ret = FALSE
    /\ created # {}
    /\ Len(last.path) >= 2
    /\ SubSeq(last.path, 1, Len(last.path) - 1) \notin created

\* C5: search(V) returns exactly the paths where V was set and not since
\* overwritten or deleted, each once.
C5_SearchExact ==
    ret.op = "search"
    => /\ {ret.val[i] : i \in 1..Len(ret.val)} = StoredWith(ret.arg)
       /\ Len(ret.val) = Cardinality(StoredWith(ret.arg))

\* C6: search(V) returns the empty sequence when no set call has stored V,
\* in particular on a memory on which no set was performed.
C6_SearchEmpty ==
    (ret.op = "search" /\ \A w \in written : ~PyEq(w[2], ret.arg))
    => ret.val = <<>>

\* C7: set(P, V) leaves get(Q) as it was for every path Q other than P and
\* removes no node.
C7_SetFrame ==
    [][SetStep
         => \A q \in Paths :
              /\ q # last'.path
                   => get_value(heap', root', q) = get_value(heap, root, q)
              /\ get_path(heap, root, q) # NoneRef
                   => get_path(heap', root', q) = get_path(heap, root, q)
      ]_vars

\* a set at an interior path whose descendant still holds its value, and a
\* set that auto-created an intermediate which reads as absent
C7_Witness ==
    /\ last.op = "set"
    /\ last.value # None
    /\ \E q \in DOMAIN stored :
         /\ q # last.path
         /\ IsPrefix(last.path, q)
         /\ Len(q) = Len(last.path) + 2
         /\ stored[q] # None
         /\ get_value(heap, root, q) = stored[q]
         /\ get_value(heap, root, SubSeq(q, 1, Len(q) - 1)) = None

\* C8 as stated: total_nodes is 1 plus the number of non-empty prefixes of
\* the paths that were set and not since removed by a delete.
C8_CountFromSetPaths ==
    ret.op = "stats"
    => ret.val.total_nodes
         = 1 + Cardinality(UNION {Prefixes(p) : p \in DOMAIN stored})

\* C8 amended: total_nodes is 1 plus the number of paths of nodes that a set
\* created (as target or intermediate) and no delete has since removed.
C8_CountNodes ==
    ret.op = "stats" => ret.val.total_nodes = 1 + Cardinality(created)

\* stats on a tree that keeps an intermediate whose only set path was deleted
C8_Witness ==
    /\ ret.op = "stats"
    /\ ret.val.total_nodes >= 2
    /\ created # UNION {Prefixes(p) : p \in DOMAIN stored}

\* C9: max_depth is the number of segments of the longest path of a node in
\* the tree, 0 for the root alone.
C9_MaxDepth ==
    ret.op = "stats"
    => ret.val.max_depth = Max({0} \cup {Len(q) : q \in created})

\* the depth went down after the deepest node was deleted
C9_Witness ==
    /\ ret.op = "stats"
    /\ last.op = "delete"
    /\ last.ret = TRUE
    /\ Len(last.path) >= 2
    /\ ret.val.max_depth = Len(last.path) - 1

\* C10: get_full_path() of the node that get_path reaches at P returns P.
C10_FullPath ==
    ret.op = "get_full_path"
    => \A q \in Paths : get_path(heap, root, q) = ret.arg => ret.val = q
\* the node reached from n by following parent k times (NoneRef once past the root)
RECURSIVE Ancestor(_, _, _)
Ancestor(h, n, k) ==
    IF k = 0 \/ n = NoneRef \/ n \notin DOMAIN h THEN n
    ELSE Ancestor(h, h[n].parent, k - 1)

\* C11: every node reachable from the root other than the root has a
\* reachable parent whose children map holds that node under the node's own
\* name; the root has no parent; the parent chain of every reachable node
\* reaches the root without repeating a node.
C11_ParentChildLinkage ==
    LET R == Reachable(heap, root)
    IN /\ heap[root].parent = NoneRef
       /\ \A n \in R \ {root} :
            /\ heap[n].parent \in R
            /\ HasKey(heap[heap[n].parent].children, heap[n].name)
            /\ Lookup(heap[heap[n].parent].children, heap[n].name) = n
       /\ \A n \in R :
            /\ \E k \in 0..(Cardinality(R) - 1) : Ancestor(heap, n, k) = root
            /\ \A j, k \in 1..Cardinality(R) :
                 (j < k /\ Ancestor(heap, n, j) # NoneRef)
                   => Ancestor(heap, n, j) # Ancestor(heap, n, k)

\* a tree with two branches, one of them two levels deep
C11_Witness ==
    /\ nops = 2
    /\ Len(heap[root].children) = 2
    /\ \E n \in DOMAIN heap : heap[n].parent \notin {NoneRef, root}
\* C12: what get(P) returns after set(P, None) differs from what get(Q)
\* returns for a path Q that does not exist.
C12_AbsentDistinct ==
    (/\ ret.op = "get"
     /\ last.op = "set"
     /\ last.value = None
     /\ Normalise(ret.arg) = last.path)
    => \A q \in Paths :
         get_path(heap, root, q) = NoneRef => ret.val # get_value(heap, root, q)
Range(seq) == {seq[i] : i \in 1..Len(seq)}
LastSeg(q) == q[Len(q)]

HasChildren(rec) == "children" \in DOMAIN rec
ExportKeys(rec) == IF HasChildren(rec) THEN [i \in 1..Len(rec.children) |-> rec.children[i].key]
                   ELSE <<>>

RECURSIVE ExportHas(_, _)
ExportHas(rec, path) ==
    \/ path = <<>>
    \/ /\ HasChildren(rec)
       /\ \E i \in 1..Len(rec.children) :
            /\ rec.children[i].key = Head(path)
            /\ ExportHas(rec.children[i].child, Tail(path))

RECURSIVE ExportAt(_, _)
ExportAt(rec, path) ==
    IF path = <<>> THEN rec
    ELSE ExportAt(rec.children[CHOOSE i \in 1..Len(rec.children) :
                                  rec.children[i].key = Head(path)].child,
                  Tail(path))

RECURSIVE ExportSize(_)
ExportSize(rec) ==
    LET RECURSIVE items(_)
        items(i) == IF i > Len(rec.children) THEN 0
                    ELSE ExportSize(rec.children[i].child) + items(i + 1)
    IN IF HasChildren(rec) THEN 1 + items(1) ELSE 1

\* the value the node at path q holds according to the calls made
ValueAt(q) == IF q \in DOMAIN stored THEN stored[q]
              ELSE IF q = <<>> THEN heap[root].value ELSE None

\* C14: the exported record has an entry at children.s1...children.sn iff a
\* node exists at [s1..sn], the entry's value is the node's value, and a
\* record carries a children mapping iff its node has a child; so the export
\* determines the nodes and values of the tree.
C14_ExportFaithful ==
    ret.op = "export"
    => /\ ExportSize(ret.val) = 1 + Cardinality(created)
       /\ \A q \in Paths :
            /\ ExportHas(ret.val, q) <=> q \in created \cup {<<>>}
            /\ ExportHas(ret.val, q)
                 => LET rec == ExportAt(ret.val, q)
                    IN /\ rec.value = ValueAt(q)
                       /\ HasChildren(rec)
                            <=> \E c \in created : Len(c) = Len(q) + 1 /\ IsPrefix(q, c)
                       /\ \A i, j \in 1..Len(ExportKeys(rec)) :
                            ExportKeys(rec)[i] = ExportKeys(rec)[j] => i = j

\* an export with a value two levels down, in a leaf, under a valueless node
C14_Witness ==
    /\ ret.op = "export"
    /\ \E q \in created :
         /\ Len(q) = 2
         /\ ExportAt(ret.val, q).value = Str("x")
         /\ ~HasChildren(ExportAt(ret.val, q))
         /\ ExportAt(ret.val, SubSeq(q, 1, 1)).value = None
\* C15: the has_value field of stats() is true iff the root carries a value,
\* and it is false as long as no call has used the empty path.
C15_RootHasValue ==
    ret.op = "stats"
    => /\ ret.val.has_value <=> (heap[root].value # None)
       /\ (\A w \in written : w[1] # <<>>) => ret.val.has_value = FALSE

KeysAt(h, r, q) ==
    IF get_path(h, r, q) = NoneRef THEN <<>>
    ELSE [i \in 1..Len(h[get_path(h, r, q)].children) |->
             h[get_path(h, r, q)].children[i].key]
IndexOf(seq, k) == CHOOSE i \in 1..Len(seq) : seq[i] = k

\* p comes before q in a pre-order walk that takes children in dict order
PreOrderBefore(h, r, p, q) ==
    /\ p # q
    /\ \/ IsPrefix(p, q)
       \/ /\ ~IsPrefix(q, p)
          /\ LET k == CHOOSE i \in 1..Len(p) :
                         p[i] # q[i] /\ \A j \in 1..(i-1) : p[j] = q[j]
                 sibs == KeysAt(h, r, SubSeq(p, 1, k - 1))
             IN IndexOf(sibs, p[k]) < IndexOf(sibs, q[k])

\* dict order is creation order: a set leaves the keys under every node as
\* they were or appends one new key; a delete takes one key out and keeps
\* the order of the others
CreationOrderStep ==
    /\ SetStep
         => \A q \in Paths :
              get_path(heap, root, q) # NoneRef
                => LET old == KeysAt(heap, root, q)
                       new == KeysAt(heap', root', q)
                   IN \/ new = old
                      \/ /\ Len(new) = Len(old) + 1
                         /\ SubSeq(new, 1, Len(old)) = old
                         /\ new[Len(new)] \notin Range(old)
    /\ DeleteStep
         => \A q \in Paths :
              get_path(heap', root', q) # NoneRef
                => LET old == KeysAt(heap, root, q)
                       new == KeysAt(heap', root', q)
                   IN \/ new = old
                      \/ \E i \in 1..Len(old) :
                           new = SubSeq(old, 1, i - 1) \o SubSeq(old, i + 1, Len(old))

ResultInPreOrder ==
    ret.op \in {"search", "search_key"}
    => \A i, j \in 1..Len(ret.val) :
         i < j => PreOrderBefore(heap, root, ret.val[i], ret.val[j])

\* C17: search and search_key return paths in pre-order, a node before its
\* descendants and siblings in the order they were created under their
\* parent; a set of an existing child keeps its place, a child deleted and
\* created again goes to the end.
C17_PreOrderInsertion == [][CreationOrderStep]_vars /\ []ResultInPreOrder

\* "a" was created before "aa", then deleted and created again: the search
\* lists "aa" first
C17_Witness ==
    /\ ret.op = "search"
    /\ ret.val = << <<<<"a", "a">>>>, <<<<"a">>>> >>
    /\ KeysAt(heap, root, <<>>) = << <<"a", "a">>, <<"a">> >>
\* C18: a set whose path is empty or has an empty-string segment leaves the
\* tree, root included, as it was.
C18_InvalidPathNoEffect ==
    [][(SetStep /\ (last'.path = <<>> \/ \E i \in 1..Len(last'.path) :
                                            last'.path[i] = <<>>))
         => heap' = heap /\ root' = root
      ]_vars

\* the segments of a dotted string, stated without split: segment k is the
\* text between dot k-1 and dot k, the ends of the string counting as dots
DotsBefore(s, i) == Cardinality({j \in 1..(i - 1) : s[j] = "."})
DotAt(s, k) ==
    IF k = 0 THEN 0
    ELSE IF k > DotsBefore(s, Len(s) + 1) THEN Len(s) + 1
    ELSE CHOOSE i \in 1..Len(s) : s[i] = "." /\ DotsBefore(s, i) = k - 1
SegmentsOf(s) ==
    [k \in 1..(DotsBefore(s, Len(s) + 1) + 1) |->
        SubSeq(s, DotAt(s, k - 1) + 1, DotAt(s, k) - 1)]
AsList(a) == [isstr |-> FALSE, v |-> SegmentsOf(a.v)]

\* C19: set, get and delete called with a string do what they do when called
\* with the list of that string's segments, so a value written in one form is
\* read, and a node deleted, in the other.
C19_PathFormsAgree ==
    [][/\ (SetStep /\ last'.arg.isstr)
            => \A p \in {Normalise(AsList(last'.arg))} :
                 heap' = set_value(heap, root, p, last'.value)
       /\ (DeleteStep /\ last'.arg.isstr)
            => \A p \in {Normalise(AsList(last'.arg))} :
                 /\ heap' = delete_path(heap, root, p).heap
                 /\ ret'.val = delete_path(heap, root, p).ret
       /\ (ret'.op = "get" /\ ret'.arg.isstr)
            => \A p \in {Normalise(AsList(ret'.arg))} :
                 ret'.val = get_value(heap, root, p)
      ]_vars

\* a value written with a string is read with the list of its segments
C19_Witness ==
    /\ ret.op = "get"
    /\ ~ret.arg.isstr
    /\ last.op = "set"
    /\ last.arg.isstr
    /\ ret.arg = AsList(last.arg)
    /\ ret.val = Str("x")
    /\ last.value = Str("x")

====
